---------------------------- MODULE Spec2Model ----------------------------
(***************************************************************************)
(* A model of app.py, the Flickr map dashboard: load_data and its cache,   *)
(* the tag index (top_tags), the tag and date filters, the sampler and the *)
(* two map modes.  Streamlit re-executes the whole script on every widget  *)
(* interaction, so every user action is "set one widget, then run the      *)
(* script from line 21 to the end".                                        *)
(*                                                                         *)
(* Text is a sequence of one-character strings.  A CSV cell is text; the   *)
(* missing value (NaN) that read_csv produces for an empty cell is the     *)
(* one-element sequence NaN.  Time is counted in ticks, DayLen to the day. *)
(***************************************************************************)
EXTENDS Integers, Sequences, FiniteSets, TLC

(***************************************************************************)
(* Bounds of the model.                                                    *)
(***************************************************************************)
\* Longest tags cell, in characters, of the generated tables.
MaxTagLen == 3
\* Most rows of a generated table.
MaxRows == 3
\* Ticks per day, and the last calendar day the date picker offers.
DayLen == 2
MaxDay == 1
\* The slider "Max points to draw" (500..20000 step 500 in the source),
\* scaled down to the size of the generated tables.
SliderMin == 1
SliderMax == 2
SliderStep == 1
\* head(200) of the tag counts, scaled down likewise.
TopK == 2
\* Most reads of one path's file the model follows.
MaxReads == 3

(***************************************************************************)
(* Text.                                                                   *)
(***************************************************************************)
NaN == <<"NaN">>

Text(alphabet, n) == UNION {[1..k -> alphabet] : k \in 0..n}

\* str.lower(), on the characters the model uses.
LowerChar(c) == IF c = "A" THEN "a" ELSE IF c = "B" THEN "b" ELSE c

RECURSIVE Lower(_)
Lower(s) == IF s = <<>> THEN <<>> ELSE <<LowerChar(Head(s))>> \o Lower(Tail(s))

IsSpace(c) == c = " "

RECURSIVE LStrip(_)
LStrip(s) ==
  IF s # <<>> /\ IsSpace(Head(s)) THEN LStrip(Tail(s)) ELSE s

RECURSIVE RStrip(_)
RStrip(s) ==
  IF s # <<>> /\ IsSpace(s[Len(s)]) THEN RStrip(SubSeq(s, 1, Len(s) - 1)) ELSE s

\* str.strip()
Strip(s) == RStrip(LStrip(s))

\* str.split(","): the pieces between the commas, empty pieces kept.
RECURSIVE SplitFrom(_, _, _)
SplitFrom(s, i, cur) ==
  IF i > Len(s) THEN <<cur>>
  ELSE IF s[i] = "," THEN <<cur>> \o SplitFrom(s, i + 1, <<>>)
  ELSE SplitFrom(s, i + 1, Append(cur, s[i]))

Split(s) == SplitFrom(s, 1, <<>>)

\* Series.str.strip()
RECURSIVE StripAll(_)
StripAll(q) == IF q = <<>> THEN <<>> ELSE <<Strip(Head(q))>> \o StripAll(Tail(q))

\* Series.ne(""): the non-empty elements, in order.
RECURSIVE NonEmpty(_)
NonEmpty(q) ==
  IF q = <<>> THEN <<>>
  ELSE IF Head(q) = <<>> THEN NonEmpty(Tail(q))
  ELSE <<Head(q)>> \o NonEmpty(Tail(q))

\* One cell of df["tags"].str.lower().str.split(",").explode().str.strip(),
\* the empty strings dropped (lines 28-31).
Tokens(tags) == NonEmpty(StripAll(Split(Lower(tags))))

(***************************************************************************)
(* The regular expression of line 56, rf"(^|,)\s*{needle}\s*(,|$)", as    *)
(* Python's re compiles and searches it.  The needle is pasted unescaped,  *)
(* so "." is any character, "*" repeats the item before it (which is the   *)
(* \s* of the prefix when the needle starts with it: "multiple repeat")    *)
(* and "(" opens a group that nothing closes.                              *)
(***************************************************************************)
Item(kind, ch, star) == [kind |-> kind, ch |-> ch, star |-> star]

PrefixItems == <<Item("bol_or_comma", ",", FALSE), Item("space", " ", TRUE)>>
SuffixItems == <<Item("space", " ", TRUE), Item("comma_or_eol", ",", FALSE)>>

\* re.compile raises re.error on the pattern built from this needle.
CompileError(needle) ==
  \/ \E i \in 1..Len(needle) : needle[i] = "("
  \/ needle # <<>> /\ needle[1] = "*"
  \/ \E i \in 1..(Len(needle) - 1) : needle[i] = "*" /\ needle[i + 1] = "*"

\* The needle's items, for a needle that compiles.
RECURSIVE NeedleItems(_, _)
NeedleItems(needle, i) ==
  IF i > Len(needle) THEN <<>>
  ELSE LET starred == i < Len(needle) /\ needle[i + 1] = "*"
           atom == IF needle[i] = "." THEN Item("any", ".", starred)
                   ELSE Item("lit", needle[i], starred)
       IN  <<atom>> \o NeedleItems(needle, IF starred THEN i + 2 ELSE i + 1)

Pattern(needle) == PrefixItems \o NeedleItems(needle, 1) \o SuffixItems

\* One character against one item that consumes a character.
AtomMatches(it, c) ==
  CASE it.kind = "lit" -> c = it.ch
    [] it.kind = "any" -> TRUE
    [] it.kind = "space" -> IsSpace(c)
    [] OTHER -> FALSE

\* The items from i on match s from pos on (a backtracking match: some choice
\* of repetition counts succeeds).
RECURSIVE MatchAt(_, _, _, _)
MatchAt(items, i, s, pos) ==
  IF i > Len(items) THEN TRUE
  ELSE LET it == items[i]
       IN  CASE it.kind = "bol_or_comma" ->
                  \/ pos = 1 /\ MatchAt(items, i + 1, s, pos)
                  \/ pos <= Len(s) /\ s[pos] = "," /\ MatchAt(items, i + 1, s, pos + 1)
             [] it.kind = "comma_or_eol" ->
                  \/ pos = Len(s) + 1 /\ MatchAt(items, i + 1, s, pos)
                  \/ pos <= Len(s) /\ s[pos] = "," /\ MatchAt(items, i + 1, s, pos + 1)
             [] it.star ->
                  \E k \in 0..(Len(s) + 1 - pos) :
                     /\ \A j \in pos..(pos + k - 1) : AtomMatches(it, s[j])
                     /\ MatchAt(items, i + 1, s, pos + k)
             [] OTHER ->
                  /\ pos <= Len(s)
                  /\ AtomMatches(it, s[pos])
                  /\ MatchAt(items, i + 1, s, pos + 1)

\* re.search: a match starting anywhere.
Search(items, s) == \E pos \in 1..(Len(s) + 1) : MatchAt(items, 1, s, pos)

\* Series.str.contains(pattern, regex=True) on one cell (line 56).
Contains(tags, needle) == Search(Pattern(needle), Lower(tags))

(***************************************************************************)
(* load_data (lines 6-17): read_csv, the two timestamp columns coerced,    *)
(* the three text columns filled.  A file is [cols, rows], every row a     *)
(* function from cols to cells; a DataFrame is [columns, rows], every row  *)
(* carrying its index label besides its columns.                           *)
(***************************************************************************)
TextCols == {"title", "tags", "url", "taken_dt", "upload_dt"}
RequiredTextCols == <<"tags", "title", "url">>
TimestampCols == <<"taken_dt", "upload_dt">>

\* The cell texts read_csv takes for a missing value.
NaValues == {<<>>, <<"N", "A">>}

ReadCell(s) == IF s \in NaValues THEN NaN ELSE s

\* pd.read_csv(path): a RangeIndex from 0, missing text cells as NaN.
ReadCsv(file) ==
  [columns |-> file.cols,
   rows |-> [i \in 1..Len(file.rows) |->
               [c \in file.cols \cup {"index"} |->
                  IF c = "index" THEN i - 1
                  ELSE IF c \in TextCols THEN ReadCell(file.rows[i][c])
                  ELSE file.rows[i][c]]]]

\* The missing timestamp.
NaT == -1

Digits == <<"0", "1", "2", "3", "4", "5", "6", "7", "8", "9">>

IsDigit(c) == \E d \in 1..10 : Digits[d] = c

DigitVal(c) == (CHOOSE d \in 1..10 : Digits[d] = c) - 1

RECURSIVE ParseTicks(_, _)
ParseTicks(s, acc) ==
  IF s = <<>> THEN acc ELSE ParseTicks(Tail(s), 10 * acc + DigitVal(Head(s)))

\* pd.to_datetime(cell, errors="coerce"): the tick a well-formed text
\* denotes, NaT for a missing value or a text that is no timestamp.
ToDatetime(cell) ==
  IF cell # NaN /\ cell # <<>> /\ \A i \in 1..Len(cell) : IsDigit(cell[i])
  THEN ParseTicks(cell, 0)
  ELSE NaT

\* The cell left as read: no fillna.
NotFilled(cell) == cell

\* Series.fillna("").astype(str)
FillNa(cell) == IF cell = NaN THEN <<>> ELSE cell

\* Lines 10-12 on one row.
CoerceRow(r) ==
  [c \in DOMAIN r |->
     IF \E k \in 1..Len(TimestampCols) : TimestampCols[k] = c
     THEN ToDatetime(r[c]) ELSE r[c]]

\* Lines 14-16 on one row.
NormalizeRow(r) ==
  [c \in DOMAIN r |->
     IF \E k \in 1..Len(RequiredTextCols) : RequiredTextCols[k] = c
     THEN FillNa(r[c]) ELSE r[c]]

\* df["tags"], df["title"] or df["url"] raises KeyError (lines 14-16).
LoadRaises(file) ==
  \E k \in 1..Len(RequiredTextCols) : RequiredTextCols[k] \notin file.cols

\* The body of load_data on a file that has the three text columns.
LoadBody(file) ==
  LET raw == ReadCsv(file)
  IN  [columns |-> raw.columns,
       rows |-> [i \in 1..Len(raw.rows) |-> NormalizeRow(CoerceRow(raw.rows[i]))]]

(***************************************************************************)
(* The tag index (lines 28-32).                                            *)
(***************************************************************************)
RECURSIVE Explode(_)
Explode(rows) ==
  IF rows = <<>> THEN <<>> ELSE Tokens(Head(rows).tags) \o Explode(Tail(rows))

Count(q, t) == Cardinality({i \in 1..Len(q) : q[i] = t})

\* The distinct elements in order of first appearance.
RECURSIVE Distinct(_, _)
Distinct(q, seen) ==
  IF q = <<>> THEN <<>>
  ELSE IF Head(q) \in seen THEN Distinct(Tail(q), seen)
  ELSE <<Head(q)>> \o Distinct(Tail(q), seen \cup {Head(q)})

RemoveAt(q, i) == SubSeq(q, 1, i - 1) \o SubSeq(q, i + 1, Len(q))

\* A stable sort of the keys by descending count.
RECURSIVE SortByCount(_, _)
SortByCount(keys, q) ==
  IF keys = <<>> THEN <<>>
  ELSE LET best == CHOOSE i \in 1..Len(keys) :
                     /\ \A j \in 1..Len(keys) : Count(q, keys[j]) <= Count(q, keys[i])
                     /\ \A j \in 1..(i - 1) : Count(q, keys[j]) < Count(q, keys[i])
       IN  <<keys[best]>> \o SortByCount(RemoveAt(keys, best), q)

\* The tokens in order of first appearance, not sorted by count.
Unsorted(q) == Distinct(q, {})

\* Series.value_counts().index
ValueCounts(q) == SortByCount(Distinct(q, {}), q)

\* .head(n)
HeadN(q, n) == SubSeq(q, 1, IF Len(q) < n THEN Len(q) ELSE n)

TopTags(rows) == HeadN(ValueCounts(Explode(rows)), TopK)

NoFilter == <<"(", "n", "o", " ", "f", "i", "l", "t", "e", "r", ")">>

\* The selectbox's options (line 34).
TagOptions(tops) == <<NoFilter>> \o tops

(***************************************************************************)
(* The filters (lines 53-61), the rename (line 67) and the sampler.        *)
(***************************************************************************)
TagFilterActive(tag) == tag # NoFilter

\* Line 56 raises re.error.
TagFilterRaises(tag) == TagFilterActive(tag) /\ CompileError(Lower(tag))

\* The rows of line 56's boolean indexing.
RECURSIVE Containing(_, _)
Containing(rows, needle) ==
  IF rows = <<>> THEN <<>>
  ELSE (IF Contains(Head(rows).tags, needle) THEN <<Head(rows)>> ELSE <<>>)
         \o Containing(Tail(rows), needle)

\* Lines 54-56.
TagFilter(rows, tag) ==
  IF TagFilterActive(tag) THEN Containing(rows, Lower(tag)) ELSE rows

\* What st.date_input returns: a tuple of dates, or a value that is no tuple
\* (None, or a single date).
DateTuple(ds) == [tuple |-> TRUE, dates |-> ds]
NotATuple == [tuple |-> FALSE, dates |-> <<>>]

\* Line 59.
DateFilterActive(columns, dr) ==
  "taken_dt" \in columns /\ dr.tuple /\ Len(dr.dates) = 2

\* pd.to_datetime(date): the day's midnight.
Midnight(day) == day * DayLen

\* Line 61 with the end date's own midnight as the end: the day not added.
InRangeEndExclusive(r, dr) ==
  LET start == Midnight(dr.dates[1])
      end == Midnight(dr.dates[2])
  IN  r.taken_dt # NaT /\ r.taken_dt >= start /\ r.taken_dt < end

\* Line 61 on one row, for start and end as line 60 computes them.
InRange(r, dr) ==
  LET start == Midnight(dr.dates[1])
      end == Midnight(dr.dates[2]) + DayLen
  IN  r.taken_dt # NaT /\ r.taken_dt >= start /\ r.taken_dt < end

\* The rows of line 61's boolean indexing.
RECURSIVE Between(_, _)
Between(rows, dr) ==
  IF rows = <<>> THEN <<>>
  ELSE (IF InRange(Head(rows), dr) THEN <<Head(rows)>> ELSE <<>>)
         \o Between(Tail(rows), dr)

\* Lines 59-61.
DateFilter(columns, rows, dr) ==
  IF DateFilterActive(columns, dr) THEN Between(rows, dr) ELSE rows

\* Line 67 on one row.
RenameRow(r) ==
  IF "long" \in DOMAIN r
  THEN [c \in (DOMAIN r \ {"long"}) \cup {"lon"} |->
          IF c = "lon" THEN r["long"] ELSE r[c]]
  ELSE r

Rename(rows) == [i \in 1..Len(rows) |-> RenameRow(rows[i])]

RenameColumns(columns) ==
  IF "long" \in columns THEN (columns \ {"long"}) \cup {"lon"} ELSE columns

\* A sample drawn with replacement: the same row n times.
TakeWithReplacement(rows, perm, n) == [i \in 1..n |-> rows[perm[1]]]

\* DataFrame.sample(n, random_state): the rows at the first n places of the
\* generator's permutation of the row positions.
Take(rows, perm, n) == [i \in 1..n |-> rows[perm[i]]]

\* Line 70.
Sampling(rows, cap) == Len(rows) > cap

\* Lines 70-73, perm being the seeded generator's permutation of 1..Len(rows).
Sampler(rows, cap, perm) ==
  IF Sampling(rows, cap) THEN Take(rows, perm, cap) ELSE rows

Perms(n) ==
  {f \in [1..n -> 1..n] : \A i, j \in 1..n : i # j => f[i] # f[j]}

(***************************************************************************)
(* The map (lines 76-127).  Coordinates are even integers, so that the     *)
(* mean of the two middle values is an integer.                            *)
(***************************************************************************)
\* float("nan"): the median of no values.
NaNNum == -1

RECURSIVE Insert(_, _)
Insert(sorted, v) ==
  IF sorted = <<>> THEN <<v>>
  ELSE IF v <= Head(sorted) THEN <<v>> \o sorted
  ELSE <<Head(sorted)>> \o Insert(Tail(sorted), v)

RECURSIVE Sorted(_)
Sorted(q) == IF q = <<>> THEN <<>> ELSE Insert(Sorted(Tail(q)), Head(q))

\* Series.median()
Median(q) ==
  LET srt == Sorted(q)
      n == Len(q)
  IN  IF n = 0 THEN NaNNum
      ELSE IF n % 2 = 1 THEN srt[(n + 1) \div 2]
      ELSE (srt[n \div 2] + srt[n \div 2 + 1]) \div 2

Column(rows, c) == [i \in 1..Len(rows) |-> rows[i][c]]

Hex == "Hex (fast overview)"
Points == "Points (click + URLs)"

NoChart == [layer |-> "none", data |-> <<>>, latitude |-> NaNNum, longitude |-> NaNNum]

\* Lines 79-97.
HexChart(view) ==
  [layer |-> "HexagonLayer", data |-> view,
   latitude |-> Median(Column(view, "lat")),
   longitude |-> Median(Column(view, "lon"))]

\* Lines 109-124.
PointsChart(sample) ==
  [layer |-> "ScatterplotLayer", data |-> sample,
   latitude |-> Median(Column(sample, "lat")),
   longitude |-> Median(Column(sample, "lon"))]

\* Both modes drawing the sampled view.
ChartOfSample(md, view, sample) ==
  IF md = Hex THEN HexChart(sample) ELSE PointsChart(sample)

\* Line 76.
Chart(md, view, sample) ==
  IF md = Hex THEN HexChart(view) ELSE PointsChart(sample)

PreviewCols == {"id", "title", "tags", "taken_dt", "url"}
PreviewHead == 200

\* Line 127 raises KeyError.
PreviewRaises(md, columns) == md = Points /\ ~(PreviewCols \subseteq columns)

\* Line 127.
Preview(md, sample) ==
  IF md = Points
  THEN HeadN([i \in 1..Len(sample) |-> [c \in PreviewCols |-> sample[i][c]]], PreviewHead)
  ELSE <<>>

(***************************************************************************)
(* The state: the files, st.cache_data's entries for load_data, the        *)
(* widgets' values, and what the last run of the script computed.          *)
(***************************************************************************)
VARIABLES
  disk,          \* path -> the file there ([exists, cols, rows])
  cache,         \* path -> [present, table]: st.cache_data's entry for load_data(path)
  reads,         \* path -> how many times read_csv has read the file
  path,          \* the text input (line 21)
  selected_tag,  \* the selectbox (line 34)
  date_range,    \* the date input (line 41)
  max_points,    \* the slider (line 47)
  mode,          \* the radio (line 50)
  status,        \* how the last run ended
  df,            \* line 22
  top_tags,      \* line 32
  dff_tag,       \* dff after line 56
  dff_date,      \* dff after line 61
  dff,           \* dff after line 67
  dff_points,    \* line 71 or 73
  chart,         \* what st.pydeck_chart was given
  preview,       \* the table of line 127
  rows_msg,      \* the two counts of line 63
  mt,            \* <<seed, n>> -> the permutation of 1..n a generator seeded so
                 \* yields, <<>> while no run has drawn it yet
  entropy,       \* what the operating system would seed an unseeded generator with
  snap           \* an observer's record of one earlier run of the sampler

vars ==
  <<disk, cache, reads, path, selected_tag, date_range, max_points, mode, status,
    df, top_tags, dff_tag, dff_date, dff, dff_points, chart, preview, rows_msg,
    mt, entropy, snap>>

\* DataFrame.sample(n) with no random_state: the seed is drawn from the
\* operating system.
SeedFromEntropy == entropy

\* The seed of the sampler's generator (random_state=0, line 71).
SamplerSeed == 0

Paths == {"flickr_data_cleaned.csv", "other.csv"}
DefaultPath == "flickr_data_cleaned.csv"
OtherPath == "other.csv"

Seeds == {0, 1}

SliderValues ==
  {v \in SliderMin..SliderMax : \E k \in 0..SliderMax : v = SliderMin + k * SliderStep}
DefaultPoints ==
  IF SliderMin + SliderStep \in SliderValues THEN SliderMin + SliderStep ELSE SliderMin

Days == 0..MaxDay

NoFile == [exists |-> FALSE, cols |-> {}, rows |-> <<>>]
NoTable == [columns |-> {}, rows |-> <<>>]
NoEntry == [present |-> FALSE, table |-> NoTable]
NoSnap ==
  [taken |-> FALSE, view |-> <<>>, cap |-> 0, sample |-> <<>>, mode |-> "", entropy |-> 0]

\* The widgets of lines 34-50 were drawn by a run that ended so.
Rendered(st) == st \in {"ok", "regex_error", "preview_error"}

\* The sampler ran (line 73 was passed).
Sampled(st) == st \in {"ok", "preview_error"}

\* pd.Timestamp.date()
DateOf(t) == t \div DayLen

Taken(rows) == {rows[i].taken_dt : i \in 1..Len(rows)} \ {NaT}

Min(S) == CHOOSE x \in S : \A y \in S : x <= y
Max(S) == CHOOSE x \in S : \A y \in S : y <= x

\* The date input's default (lines 39-44): the span of the data, or None.
DefaultRange(d) ==
  IF "taken_dt" \in d.columns /\ Taken(d.rows) # {}
  THEN DateTuple(<<DateOf(Min(Taken(d.rows))), DateOf(Max(Taken(d.rows)))>>)
  ELSE NotATuple

\* What the user can set the date input to: with a default span, one date
\* (the range half picked) or two in order; with no default, no tuple.
DateChoices(d) ==
  IF DefaultRange(d).tuple
  THEN {DateTuple(<<s>>) : s \in Days}
         \cup {DateTuple(<<x[1], x[2]>>) : x \in {y \in Days \X Days : y[1] <= y[2]}}
  ELSE {NotATuple}

\* The run stopped in load_data: nothing below line 22 is bound.
LoadFailed ==
  [status |-> "load_error", df |-> NoTable, top_tags |-> <<>>, dff_tag |-> <<>>,
   dff_date |-> <<>>, dff |-> <<>>, dff_points |-> <<>>, chart |-> NoChart,
   preview |-> <<>>, rows_msg |-> <<>>]

\* The run stopped at line 56, tops being the tag index.
RegexFailed(d, tops) ==
  [status |-> "regex_error", df |-> d, top_tags |-> tops, dff_tag |-> <<>>,
   dff_date |-> <<>>, dff |-> <<>>, dff_points |-> <<>>, chart |-> NoChart,
   preview |-> <<>>, rows_msg |-> <<>>]

\* Lines 63-127 on the loaded table d, tops being the tag index, tagged the
\* table after the tag filter and dated after the date filter.
Completed(d, tops, tagged, dated, cap, md, perm) ==
  LET view == Rename(dated)
      sample == Sampler(view, cap, perm)
      raises == PreviewRaises(md, RenameColumns(d.columns))
  IN  [status |-> IF raises THEN "preview_error" ELSE "ok",
       df |-> d, top_tags |-> tops, dff_tag |-> tagged,
       dff_date |-> dated, dff |-> view, dff_points |-> sample,
       chart |-> Chart(md, view, sample),
       preview |-> IF raises THEN <<>> ELSE Preview(md, sample),
       rows_msg |-> <<Len(dated), Len(d.rows)>>]

Publish(outcome) ==
  \E o \in {outcome} :
  /\ status' = o.status
  /\ df' = o.df
  /\ top_tags' = o.top_tags
  /\ dff_tag' = o.dff_tag
  /\ dff_date' = o.dff_date
  /\ dff' = o.dff
  /\ dff_points' = o.dff_points
  /\ chart' = o.chart
  /\ preview' = o.preview
  /\ rows_msg' = o.rows_msg

\* load_data(path) under st.cache_data (lines 6-8, 22): the cached table when
\* there is one, else the file is read; a call that raises caches nothing.
Uncached(p) == FALSE

CacheHit(p) == cache[p].present
FileRead(p) == ~CacheHit(p) /\ disk[p].exists
Loads(p) == CacheHit(p) \/ (disk[p].exists /\ ~LoadRaises(disk[p]))
LoadData(p) == IF CacheHit(p) THEN cache[p].table ELSE LoadBody(disk[p])

\* A widget keeps the user's value from one run to the next while it is drawn
\* with the same arguments; otherwise it returns its default.
TagWidget(tops, tg) ==
  IF Rendered(status) /\ top_tags = tops THEN tg ELSE NoFilter

DateWidget(d, dr) ==
  IF "taken_dt" \notin d.columns THEN NotATuple
  ELSE IF Rendered(status) /\ "taken_dt" \in df.columns /\ DefaultRange(df) = DefaultRange(d)
  THEN dr ELSE DefaultRange(d)

SliderWidget(mp) == IF Rendered(status) THEN mp ELSE DefaultPoints

RadioWidget(md) == IF Rendered(status) THEN md ELSE Hex

\* One run of the script, lines 21-127, the widgets holding p, tg, dr, mp, md.
Run(p, tg, dr, mp, md) ==
  /\ FileRead(p) => reads[p] < MaxReads
  /\ path' = p
  /\ reads' = IF FileRead(p) THEN [reads EXCEPT ![p] = @ + 1] ELSE reads
  /\ cache' = IF ~CacheHit(p) /\ Loads(p)
              THEN [cache EXCEPT ![p] = [present |-> TRUE, table |-> LoadBody(disk[p])]]
              ELSE cache
  /\ IF ~Loads(p)
     THEN /\ Publish(LoadFailed)
          /\ selected_tag' = NoFilter
          /\ date_range' = NotATuple
          /\ max_points' = DefaultPoints
          /\ mode' = Hex
          /\ mt' = mt
     ELSE LET d == LoadData(p)
              tops == TopTags(d.rows)
              tag == TagWidget(tops, tg)
              range == DateWidget(d, dr)
              cap == SliderWidget(mp)
              md1 == RadioWidget(md)
              tagged == TagFilter(d.rows, tag)
              dated == DateFilter(d.columns, tagged, range)
              key == <<SamplerSeed, Len(dated)>>
          IN  /\ selected_tag' = tag
              /\ date_range' = range
              /\ max_points' = cap
              /\ mode' = md1
              /\ IF TagFilterRaises(tag)
                 THEN Publish(RegexFailed(d, tops)) /\ mt' = mt
                 ELSE IF Sampling(dated, cap)
                 THEN \E perm \in (IF mt[key] # <<>> THEN {mt[key]} ELSE Perms(Len(dated))) :
                        /\ mt' = [mt EXCEPT ![key] = perm]
                        /\ Publish(Completed(d, tops, tagged, dated, cap, md1, perm))
                 ELSE /\ mt' = mt
                      /\ Publish(Completed(d, tops, tagged, dated, cap, md1, <<>>))
  /\ UNCHANGED <<disk, entropy, snap>>

(***************************************************************************)
(* The actions: the user's interactions, each followed by a run of the     *)
(* script, and what happens around the program.                            *)
(***************************************************************************)
\* The first run, or a rerun with nothing changed.
Rerun == Run(path, selected_tag, date_range, max_points, mode)

SetPath(p) ==
  /\ status # "not_run"
  /\ p # path
  /\ Run(p, selected_tag, date_range, max_points, mode)

SelectTag(t) ==
  /\ Rendered(status)
  /\ \E i \in 1..Len(TagOptions(top_tags)) : TagOptions(top_tags)[i] = t
  /\ t # selected_tag
  /\ Run(path, t, date_range, max_points, mode)

SetDateRange(dr) ==
  /\ Rendered(status)
  /\ "taken_dt" \in df.columns
  /\ dr \in DateChoices(df)
  /\ dr # date_range
  /\ Run(path, selected_tag, dr, max_points, mode)

SetMaxPoints(mp) ==
  /\ Rendered(status)
  /\ mp \in SliderValues
  /\ mp # max_points
  /\ Run(path, selected_tag, date_range, mp, mode)

SetMode(md) ==
  /\ Rendered(status)
  /\ md \in {Hex, Points}
  /\ md # mode
  /\ Run(path, selected_tag, date_range, max_points, md)

\* Outside the program: the file at p is overwritten with a copy of q's.
CopyFile(q, p) ==
  /\ p # q
  /\ disk[q].exists
  /\ disk[p] # disk[q]
  /\ disk' = [disk EXCEPT ![p] = disk[q]]
  /\ UNCHANGED <<cache, reads, path, selected_tag, date_range, max_points, mode,
                 status, df, top_tags, dff_tag, dff_date, dff, dff_points, chart,
                 preview, rows_msg, mt, entropy, snap>>

\* Outside the program: the operating system's entropy moves on.
Reseed ==
  /\ entropy' \in Seeds \ {entropy}
  /\ UNCHANGED <<disk, cache, reads, path, selected_tag, date_range, max_points,
                 mode, status, df, top_tags, dff_tag, dff_date, dff, dff_points,
                 chart, preview, rows_msg, mt, snap>>

\* An observer notes the sampler's input and output of the run just ended,
\* with the map mode and the entropy of that moment.
Observe ==
  /\ Sampled(status)
  /\ snap' = [taken |-> TRUE, view |-> dff, cap |-> max_points, sample |-> dff_points,
              mode |-> mode, entropy |-> entropy]
  /\ snap' # snap
  /\ UNCHANGED <<disk, cache, reads, path, selected_tag, date_range, max_points,
                 mode, status, df, top_tags, dff_tag, dff_date, dff, dff_points,
                 chart, preview, rows_msg, mt, entropy>>

\* The process starts with the files d on disk and no run made yet.
Start(d) ==
  /\ disk = d
  /\ cache = [p \in Paths |-> NoEntry]
  /\ reads = [p \in Paths |-> 0]
  /\ path = DefaultPath
  /\ selected_tag = NoFilter
  /\ date_range = NotATuple
  /\ max_points = DefaultPoints
  /\ mode = Hex
  /\ status = "not_run"
  /\ df = NoTable
  /\ top_tags = <<>>
  /\ dff_tag = <<>>
  /\ dff_date = <<>>
  /\ dff = <<>>
  /\ dff_points = <<>>
  /\ chart = NoChart
  /\ preview = <<>>
  /\ rows_msg = <<>>
  /\ mt = [k \in Seeds \X (0..MaxRows) |-> <<>>]
  /\ entropy = 0
  /\ snap = NoSnap

(***************************************************************************)
(* The files the specifications start from.                                *)
(***************************************************************************)
AllCols == {"id", "title", "tags", "url", "lat", "long", "taken_dt", "upload_dt"}
NoDateCols == AllCols \ {"taken_dt", "upload_dt"}

Cells(tags, title, url, lat, long, taken, upload) ==
  [tags |-> tags, title |-> title, url |-> url, lat |-> lat, long |-> long,
   taken_dt |-> taken, upload_dt |-> upload]

\* A CSV file with the columns cols (the longitude under "lon" when cols
\* names it so) and one row per element of cells, the ids counting from 1.
MkFile(cols, cells) ==
  [exists |-> TRUE, cols |-> cols,
   rows |-> [i \in 1..Len(cells) |->
               [c \in cols |->
                  IF c = "id" THEN i
                  ELSE IF c = "lon" THEN cells[i]["long"]
                  ELSE cells[i][c]]]]

\* A row that differs from any other only in its tags.
Tagged(tags) == Cells(tags, <<"t">>, <<"u">>, 2, 4, <<"1">>, <<"1">>)

OnlyDefault(f) == [p \in Paths |-> IF p = DefaultPath THEN f ELSE NoFile]

Options == {TagOptions(top_tags)[i] : i \in 1..Len(TagOptions(top_tags))}

(***************************************************************************)
(* SpecTag: the tag filter on every tags cell of up to MaxTagLen           *)
(* characters, alone in its table or beside a second record.               *)
(***************************************************************************)
TagAlphabet == {"a", "A", ",", " ", ".", "*", "("}

TagFiles ==
  {MkFile(cols, <<Tagged(t)>>) : cols \in {AllCols, NoDateCols}, t \in Text(TagAlphabet, MaxTagLen)}
    \cup {MkFile(NoDateCols, <<Tagged(t), Tagged(u)>>) :
            t \in Text(TagAlphabet, MaxTagLen), u \in {<<"a">>, <<"a", "a">>}}

InitTag == \E f \in TagFiles : Start(OnlyDefault(f))

NextTag ==
  \/ Rerun
  \/ \E t \in Options : SelectTag(t)

SpecTag == InitTag /\ [][NextTag]_vars

(***************************************************************************)
(* SpecDate: the date filter on tables of one or two records, every        *)
(* taken_dt cell empty, malformed or a tick up to the midnight after the   *)
(* last day, the first record tagged "a" and the second "b,a"; the other   *)
(* path holds a table with no timestamp columns.                           *)
(***************************************************************************)
RECURSIVE TickText(_)
TickText(t) ==
  IF t < 10 THEN <<Digits[t + 1]>>
  ELSE Append(TickText(t \div 10), Digits[(t % 10) + 1])

TimeCells == {<<>>, <<"x">>} \cup {TickText(t) : t \in 0..Midnight(MaxDay + 1)}

Dated(tags, cell) == Cells(tags, <<"t">>, <<"u">>, 2, 4, cell, <<"1">>)

DateFiles ==
  {MkFile(AllCols, <<Dated(<<"a">>, c)>>) : c \in TimeCells}
    \cup {MkFile(AllCols, <<Dated(<<"a">>, c), Dated(<<"b", ",", "a">>, e)>>) :
            c \in TimeCells, e \in TimeCells}

UndatedFile == MkFile(NoDateCols, <<Tagged(<<"a">>), Tagged(<<"b">>)>>)

InitDate ==
  \E f \in DateFiles :
     Start([p \in Paths |-> IF p = DefaultPath THEN f ELSE UndatedFile])

NextDate ==
  \/ Rerun
  \/ \E p \in Paths : SetPath(p)
  \/ \E t \in Options : SelectTag(t)
  \/ \E dr \in DateChoices(df) : SetDateRange(dr)

SpecDate == InitDate /\ [][NextDate]_vars

(***************************************************************************)
(* SpecIndex: the tag index on tables of one or two records, every tags    *)
(* cell of up to MaxTagLen characters, and on two tables written out.      *)
(***************************************************************************)
IndexAlphabet == {"a", "b", ","}

RankingExample ==
  MkFile(NoDateCols,
         <<Tagged(<<"a", ",", "b">>), Tagged(<<"a", ",", "c">>), Tagged(<<"a">>)>>)

MixedCaseExample ==
  MkFile(NoDateCols,
         <<Tagged(<<"B", ",", " ", "a">>), Tagged(<<"A", " ", ",", "b", ",", "B">>)>>)

IndexFiles ==
  {MkFile(NoDateCols, <<Tagged(t)>>) : t \in Text(IndexAlphabet, MaxTagLen)}
    \cup {MkFile(NoDateCols, <<Tagged(t), Tagged(u)>>) :
            t \in Text(IndexAlphabet, MaxTagLen), u \in Text(IndexAlphabet, MaxTagLen)}
    \cup {RankingExample, MixedCaseExample}

InitIndex == \E f \in IndexFiles : Start(OnlyDefault(f))

NextIndex ==
  \/ Rerun
  \/ \E t \in Options : SelectTag(t)

SpecIndex == InitIndex /\ [][NextIndex]_vars

(***************************************************************************)
(* SpecSample: the sampler on tables of up to MaxRows records that differ  *)
(* in their coordinates, under every slider value, both map modes, an      *)
(* observer and a moving entropy.                                          *)
(***************************************************************************)
Coords == {<<0, 2>>, <<2, 0>>}

Placed == {Cells(<<"a">>, <<"t">>, <<"u">>, c[1], c[2], <<"1">>, <<"1">>) : c \in Coords}

SampleFiles == {MkFile(AllCols, cells) : cells \in UNION {[1..k -> Placed] : k \in 1..MaxRows}}

InitSample == \E f \in SampleFiles : Start(OnlyDefault(f))

NextSample ==
  \/ Rerun
  \/ \E mp \in SliderValues : SetMaxPoints(mp)
  \/ \E md \in {Hex, Points} : SetMode(md)
  \/ Reseed
  \/ Observe

SpecSample == InitSample /\ [][NextSample]_vars

(***************************************************************************)
(* SpecLoad: load_data and its cache on one-record files whose text cells  *)
(* are present or missing and whose timestamp cells are well-formed or     *)
(* not, with or without the timestamp columns or the tags column, while    *)
(* files are overwritten.                                                  *)
(***************************************************************************)
LoadRows ==
  {Cells(tg, ti, u, 2, 4, tk, up) :
     tg \in {<<>>, <<"a">>}, ti \in {<<>>, <<"N", "A">>, <<"t">>}, u \in {<<>>, <<"u">>},
     tk \in {<<>>, <<"x">>, <<"1">>}, up \in {<<"x">>, <<"1">>}}

LoadFiles ==
  {MkFile(cols, <<r>>) : cols \in {AllCols, NoDateCols, AllCols \ {"tags"}}, r \in LoadRows}

InitLoad ==
  \E f \in LoadFiles, g \in {NoFile, UndatedFile} :
     Start([p \in Paths |-> IF p = DefaultPath THEN f ELSE g])

NextLoad ==
  \/ Rerun
  \/ \E p \in Paths : SetPath(p)
  \/ \E q, p \in Paths : CopyFile(q, p)

SpecLoad == InitLoad /\ [][NextLoad]_vars

(***************************************************************************)
(* Spec: the whole dashboard, every interaction, on a three-record table   *)
(* with timestamps, the second path holding a two-record table without     *)
(* them, or nothing.                                                       *)
(***************************************************************************)
LonCols == (NoDateCols \ {"long"}) \cup {"lon"}

PhotoFile ==
  MkFile(AllCols,
         <<Cells(<<"a", ",", " ", "b">>, <<"t">>, <<"u">>, 0, 6, <<"0">>, <<"1">>),
           Cells(<<"A">>, <<>>, <<"u">>, 4, 2, TickText(Midnight(MaxDay)), <<"x">>),
           Cells(<<"b">>, <<"t">>, <<>>, 2, 4, <<"x">>, <<>>)>>)

LonFile ==
  MkFile(LonCols,
         <<Cells(<<"b">>, <<"t">>, <<"u">>, 6, 0, <<>>, <<>>),
           Cells(<<"b", ",", "a">>, <<"t">>, <<"u">>, 2, 8, <<>>, <<>>)>>)

Init ==
  \E g \in {LonFile, NoFile} :
     Start([p \in Paths |-> IF p = DefaultPath THEN PhotoFile ELSE g])

Next ==
  \/ Rerun
  \/ \E p \in Paths : SetPath(p)
  \/ \E t \in Options : SelectTag(t)
  \/ \E dr \in DateChoices(df) : SetDateRange(dr)
  \/ \E mp \in SliderValues : SetMaxPoints(mp)
  \/ \E md \in {Hex, Points} : SetMode(md)
  \/ \E q, p \in Paths : CopyFile(q, p)

Spec == Init /\ [][Next]_vars

(***************************************************************************)
(* The claims.                                                             *)
(***************************************************************************)
TokenSet(tags) == {Tokens(tags)[i] : i \in 1..Len(Tokens(tags))}

Indexes(rows) == {rows[i].index : i \in 1..Len(rows)}

\* The date predicate as the specification words it: taken_dt is not null and
\* start <= taken_dt < end date + 1 day.
WithinDays(r, dr) ==
  /\ r.taken_dt # NaT
  /\ Midnight(dr.dates[1]) <= r.taken_dt
  /\ r.taken_dt < Midnight(dr.dates[2] + 1)

\* C1: when a tag other than "(no filter)" is selected, a record is kept by
\* the tag filter if and only if the tag equals one of the record's tokens
\* (lowercased, comma-split, trimmed).
C1_TagFilterKeepsExactlyTokenMatches ==
  (Sampled(status) /\ TagFilterActive(selected_tag)) =>
    \A i \in 1..Len(df.rows) :
       (df.rows[i].index \in Indexes(dff_tag))
         <=> (selected_tag \in TokenSet(df.rows[i].tags))

\* C3: the filtered view is exactly the records that satisfy every active
\* predicate, the tag predicate being whole-token membership and the date
\* predicate the day window; with no predicate active it is the whole table.
C3_FilteredViewIsConjunction ==
  Sampled(status) =>
    /\ Indexes(dff) =
         {df.rows[i].index : i \in
            {j \in 1..Len(df.rows) :
               /\ TagFilterActive(selected_tag) =>
                    selected_tag \in TokenSet(df.rows[j].tags)
               /\ DateFilterActive(df.columns, date_range) =>
                    WithinDays(df.rows[j], date_range)}}
    /\ Len(dff) = Cardinality(Indexes(dff))

\* C10: selecting any tag the index offers, no date filter being active,
\* completes without error and keeps every record the tag was extracted from.
C10_OfferedTagSelects ==
  (/\ status \notin {"not_run", "load_error"}
   /\ TagFilterActive(selected_tag)
   /\ ~DateFilterActive(df.columns, date_range)) =>
    /\ Sampled(status)
    /\ \A i \in 1..Len(df.rows) :
         selected_tag \in TokenSet(df.rows[i].tags) =>
           df.rows[i].index \in Indexes(dff)
    /\ dff # <<>>

\* C2: when the table has a taken_dt column and a (start, end) pair is
\* selected, a record that passed the tag filter is kept by the date filter
\* if and only if its taken_dt is not null and start <= taken_dt < end + 1 day.
C2_DateFilterKeepsExactlyTheWindow ==
  (/\ Sampled(status)
   /\ "taken_dt" \in df.columns
   /\ date_range.tuple
   /\ Len(date_range.dates) = 2) =>
    \A i \in 1..Len(dff_tag) :
       (dff_tag[i].index \in Indexes(dff_date)) <=> WithinDays(dff_tag[i], date_range)

\* C2's case: of two records, the one taken at the end date's midnight is
\* kept and the one taken at the next midnight is dropped.
C2_Witness ==
  /\ Sampled(status)
  /\ date_range.tuple
  /\ Len(date_range.dates) = 2
  /\ \E i, j \in 1..Len(dff_tag) :
       /\ dff_tag[i].taken_dt = Midnight(date_range.dates[2])
       /\ dff_tag[i].index \in Indexes(dff_date)
       /\ dff_tag[j].taken_dt = Midnight(date_range.dates[2] + 1)
       /\ dff_tag[j].index \notin Indexes(dff_date)

\* How often the token t occurs in the table, every repetition inside one
\* record's tags counted.
Occurrences(t) ==
  Cardinality(UNION {{<<i, k>> : k \in {n \in 1..Len(Tokens(df.rows[i].tags)) :
                                          Tokens(df.rows[i].tags)[n] = t}} :
                       i \in 1..Len(df.rows)})

AllTokens == UNION {TokenSet(df.rows[i].tags) : i \in 1..Len(df.rows)}

\* C7: the tag options are distinct non-empty tokens of the table, in order
\* of non-increasing occurrence count, and are the first TopK of that order:
\* as many as there are tokens up to TopK, no token left out occurring more
\* often than one that is listed.
C7_TopTagsRankedByCount ==
  Rendered(status) =>
    /\ \A i \in 1..Len(top_tags) : top_tags[i] \in AllTokens /\ top_tags[i] # <<>>
    /\ \A i, j \in 1..Len(top_tags) : i # j => top_tags[i] # top_tags[j]
    /\ \A i \in 1..(Len(top_tags) - 1) :
         Occurrences(top_tags[i]) >= Occurrences(top_tags[i + 1])
    /\ Len(top_tags) =
         (IF Cardinality(AllTokens) < TopK THEN Cardinality(AllTokens) ELSE TopK)
    /\ \A t \in AllTokens :
         (\A i \in 1..Len(top_tags) : top_tags[i] # t) =>
           \A i \in 1..Len(top_tags) : Occurrences(top_tags[i]) >= Occurrences(t)

\* C7's case: for the records tagged "a,b", "a,c" and "a", the tag "a" is
\* first, with count 3.
C7_Witness ==
  /\ Rendered(status)
  /\ Len(df.rows) = 3
  /\ df.rows[1].tags = <<"a", ",", "b">>
  /\ df.rows[2].tags = <<"a", ",", "c">>
  /\ df.rows[3].tags = <<"a">>
  /\ top_tags[1] = <<"a">>
  /\ Occurrences(<<"a">>) = 3
  /\ Len(top_tags) = TopK

Range(q) == {q[i] : i \in 1..Len(q)}

\* C4: a filtered view of at most max_points rows is the sampled view
\* unchanged; of a larger one the sampled view has exactly max_points rows,
\* each a row of the view, no row twice.
C4_SampleSizeAndMembership ==
  Sampled(status) =>
    IF Len(dff) <= max_points
    THEN dff_points = dff
    ELSE /\ Len(dff_points) = max_points
         /\ Range(dff_points) \subseteq Range(dff)
         /\ \A i, j \in 1..Len(dff_points) :
              i # j => dff_points[i].index # dff_points[j].index

\* C4's case: a view larger than the cap was cut to two rows or more.
C4_Witness ==
  /\ Sampled(status)
  /\ Len(dff) > max_points
  /\ max_points >= 2
  /\ Len(dff_points) = max_points

\* C5: a run of the sampler on the view and cap an earlier run had yields
\* the same set of sampled rows as that run did.
C5_SampleDeterministic ==
  (/\ snap.taken
   /\ Sampled(status)
   /\ dff = snap.view
   /\ max_points = snap.cap) =>
    Range(dff_points) = Range(snap.sample)

\* C5's case: the sampler cut the same view to the same cap as in the run
\* observed, the map mode and the entropy having changed since.
C5_Witness ==
  /\ snap.taken
  /\ Sampled(status)
  /\ dff = snap.view
  /\ max_points = snap.cap
  /\ Len(dff) > max_points
  /\ mode # snap.mode
  /\ entropy # snap.entropy
  /\ Range(dff_points) = Range(snap.sample)

\* C6, as stated: no path's file is read more than once.
C6_FileReadAtMostOnce == \A p \in Paths : reads[p] <= 1

\* C6, amended: once a load of a path has succeeded, its file is never read
\* again and its cached table never changes, whatever happens to the file,
\* and every run on that path works on that table.
C6_LoadedPathNeverReadAgain ==
  /\ [][\A p \in Paths :
          cache[p].present =>
            /\ reads'[p] = reads[p]
            /\ cache'[p] = cache[p]
            /\ (path' = p => status' # "load_error" /\ df' = cache[p].table)]_vars
  /\ [](\A p \in Paths : cache[p].present => reads[p] >= 1)

\* C6's case: the table of the default path is served from the cache, read
\* once, while the file there has been overwritten by the other path's,
\* which differs.
C6_Witness ==
  /\ path = DefaultPath
  /\ Sampled(status)
  /\ cache[DefaultPath].present
  /\ cache[OtherPath].present
  /\ reads[DefaultPath] = 1
  /\ disk[DefaultPath] = disk[OtherPath]
  /\ cache[DefaultPath].table # cache[OtherPath].table
  /\ df = cache[DefaultPath].table

\* A cell that is no timestamp.
Unparseable(cell) == cell = <<>> \/ \E i \in 1..Len(cell) : ~IsDigit(cell[i])

\* C8: a load that reads a file fails only for a missing tags, title or url
\* column; in the table it returns, every tags, title and url value is a
\* string (the empty one where the file's cell was missing, the cell's text
\* otherwise) and every taken_dt or upload_dt whose cell was no timestamp
\* is null.
C8_LoadNormalizes ==
  [][\A p \in Paths :
       reads'[p] = reads[p] + 1 =>
         /\ status' = "load_error" <=> ~({"tags", "title", "url"} \subseteq disk[p].cols)
         /\ status' # "load_error" =>
              /\ Len(df'.rows) = Len(disk[p].rows)
              /\ \A i \in 1..Len(disk[p].rows) :
                   /\ \A c \in {"tags", "title", "url"} :
                        /\ df'.rows[i][c] # NaN
                        /\ df'.rows[i][c] =
                             (IF disk[p].rows[i][c] \in {<<>>, <<"N", "A">>}
                              THEN <<>> ELSE disk[p].rows[i][c])
                   /\ \A c \in {"taken_dt", "upload_dt"} \cap disk[p].cols :
                        Unparseable(disk[p].rows[i][c]) => df'.rows[i][c] = NaT]_vars

\* C8's case: a file with a missing tags, title and url cell and a taken_dt
\* that is no timestamp has loaded.
C8_Witness ==
  /\ Sampled(status)
  /\ reads[path] = 1
  /\ disk[path].cols = AllCols
  /\ disk[path].rows[1].tags = <<>>
  /\ disk[path].rows[1].title = <<"N", "A">>
  /\ disk[path].rows[1].url = <<>>
  /\ disk[path].rows[1].taken_dt = <<"x">>
  /\ df.rows[1].tags = <<>>
  /\ df.rows[1].title = <<>>
  /\ df.rows[1].url = <<>>
  /\ df.rows[1].taken_dt = NaT

\* The k-th smallest of the values q.
Kth(q, k) ==
  CHOOSE x \in Range(q) :
    /\ Cardinality({i \in 1..Len(q) : q[i] < x}) < k
    /\ Cardinality({i \in 1..Len(q) : q[i] <= x}) >= k

\* The median of the column c of rows: the middle value, or the mean of the
\* two middle values; NaNNum of no rows.
MedianOf(rows, c) ==
  LET q == [i \in 1..Len(rows) |-> rows[i][c]]
      n == Len(rows)
  IN  IF n = 0 THEN NaNNum
      ELSE (Kth(q, (n + 1) \div 2) + Kth(q, n \div 2 + 1)) \div 2

\* C9: in Hex mode the chart gets the whole filtered view and its median
\* latitude and longitude; in Points mode it gets the sampled view, of at
\* most max_points rows, and that view's medians; a change of the mode
\* changes neither view.
C9_ChartPayloadPerMode ==
  /\ [](Sampled(status) =>
          /\ mode = Hex =>
               /\ chart.layer = "HexagonLayer"
               /\ chart.data = dff
               /\ chart.latitude = MedianOf(dff, "lat")
               /\ chart.longitude = MedianOf(dff, "lon")
          /\ mode = Points =>
               /\ chart.layer = "ScatterplotLayer"
               /\ chart.data = dff_points
               /\ Len(chart.data) <= max_points
               /\ chart.latitude = MedianOf(dff_points, "lat")
               /\ chart.longitude = MedianOf(dff_points, "lon"))
  /\ [][(mode' # mode /\ path' = path) =>
          (dff' = dff /\ dff_points' = dff_points /\ status' # "load_error")]_vars

\* C9's case: in Hex mode, over a view that a filter has narrowed and that
\* is larger than the cap, the chart holds the whole view, centred on
\* medians that the sampled view does not have.
C9_Witness ==
  /\ status = "ok"
  /\ mode = Hex
  /\ Len(dff) < Len(df.rows)
  /\ Len(dff) > max_points
  /\ chart.data = dff
  /\ chart.data # dff_points
  /\ chart.latitude = MedianOf(dff, "lat")
  /\ chart.latitude # MedianOf(dff_points, "lat")

=============================================================================
